---- MODULE Spec2Model ----
(***************************************************************************)
(* kconfig-select: a model of src/kconfig-select.py.                       *)
(*                                                                         *)
(* File names are sequences of one-character strings, so that the name     *)
(* tests of the scanner (first character, prefix, suffix) and the revision *)
(* names "<base>-r<N>" are computed the way the code computes them.        *)
(*                                                                         *)
(* Three specifications share the module:                                  *)
(*   Spec      one build directory / config-store pair, the commands       *)
(*             "backup", "config" and "list" of one selected build type;   *)
(*   SpecMain  the build type selection of main();                         *)
(*   SpecCopy  copy_file(), one system call per step, with I/O failures.   *)
(***************************************************************************)
EXTENDS Integers, Sequences, FiniteSets, TLC

VARIABLES
    cdir_exists,  \* Spec: the config-store subdirectory exists
    cdir,         \* Spec: its entries, a function from names to entries
    bdir_exists,  \* Spec: the build directory exists
    bcfile,       \* Spec: the build-config file, [exists, data]
    build_type,   \* Spec: the BuildType instance main() selected
    last,         \* Spec: what the last command did
    sel_in,       \* SpecMain: the inputs of the selection
    sel_out,      \* SpecMain: its result
    cp            \* SpecCopy: the state of one copy_file() call

vars == <<cdir_exists, cdir, bdir_exists, bcfile, build_type, last, sel_in, sel_out, cp>>

----------------------------------------------------------------------------
(* Bounds *)

\* number of distinct file contents
NumContents == 2

\* highest revision number the probing of run_backup may reach
MaxRev == 2

\* longest source file of copy_file, in bytes
MaxFileLen == 3

\* the block size of copy_file, bsize = 2**14 in the code, scaled down so that
\* a file of MaxFileLen bytes takes more than one block
bsize == 2

\* the number of system calls of one copy_file that the environment lets fail
MaxFaults == 1

----------------------------------------------------------------------------
(* Strings *)

StartsWith(s, p) == Len(s) >= Len(p) /\ SubSeq(s, 1, Len(p)) = p

EndsWith(s, p) == Len(s) >= Len(p) /\ SubSeq(s, Len(s) - Len(p) + 1, Len(s)) = p

Digit(d) == <<"0", "1", "2", "3", "4", "5", "6", "7", "8", "9">>[d + 1]

RECURSIVE IntToStr(_)
IntToStr(n) == IF n < 10 THEN <<Digit(n)>> ELSE IntToStr(n \div 10) \o <<Digit(n % 10)>>

\* "%Y", "%m", "%d" of strftime: zero padded to the width w
RECURSIVE ZeroPad(_, _)
ZeroPad(s, w) == IF Len(s) >= w THEN s ELSE ZeroPad(<<"0">> \o s, w)

Lowercase(c) ==
    CASE c = "A" -> "a" [] c = "B" -> "b" [] c = "C" -> "c" [] c = "D" -> "d"
      [] c = "E" -> "e" [] c = "F" -> "f" [] c = "G" -> "g" [] c = "H" -> "h"
      [] c = "I" -> "i" [] c = "J" -> "j" [] c = "K" -> "k" [] c = "L" -> "l"
      [] c = "M" -> "m" [] c = "N" -> "n" [] c = "O" -> "o" [] c = "P" -> "p"
      [] c = "Q" -> "q" [] c = "R" -> "r" [] c = "S" -> "s" [] c = "T" -> "t"
      [] c = "U" -> "u" [] c = "V" -> "v" [] c = "W" -> "w" [] c = "X" -> "x"
      [] c = "Y" -> "y" [] c = "Z" -> "z" [] OTHER -> c

\* str.lower()
Lower(s) == [i \in 1..Len(s) |-> Lowercase(s[i])]

\* str.lstrip(chars), str.rstrip(chars), str.strip(chars)
RECURSIVE LStrip(_, _)
LStrip(s, chars) ==
    IF s # <<>> /\ s[1] \in chars THEN LStrip(Tail(s), chars) ELSE s

RECURSIVE RStrip(_, _)
RStrip(s, chars) ==
    IF s # <<>> /\ s[Len(s)] \in chars THEN RStrip(SubSeq(s, 1, Len(s) - 1), chars) ELSE s

Strip(s, chars) == RStrip(LStrip(s, chars), chars)

\* str.strip() without argument strips white space
Whitespace == {" ", "\t", "\n", "\r"}

\* str.split(sep) for a one-character separator: the list of the pieces
RECURSIVE Split(_, _)
Split(s, sep) ==
    IF \E i \in 1..Len(s) : s[i] = sep
    THEN LET i == CHOOSE k \in 1..Len(s) : s[k] = sep /\ \A j \in 1..(k - 1) : s[j] # sep
         IN  <<SubSeq(s, 1, i - 1)>> \o Split(SubSeq(s, i + 1, Len(s)), sep)
    ELSE <<s>>

\* sep.join(pieces)
RECURSIVE Join(_, _)
Join(pieces, sep) ==
    IF pieces = <<>> THEN <<>>
    ELSE IF Len(pieces) = 1 THEN pieces[1]
    ELSE pieces[1] \o <<sep>> \o Join(Tail(pieces), sep)

\* str.partition(sep)[0]: the part before the first separator
PartitionHead(s, sep) == Split(s, sep)[1]

\* posixpath.normpath() of a path without leading slashes
RECURSIVE NormComps(_, _)
NormComps(comps, new) ==
    IF comps = <<>> THEN new
    ELSE LET comp == comps[1]
             rest == Tail(comps)
         IN  IF comp = <<>> \/ comp = <<".">> THEN NormComps(rest, new)
             ELSE IF comp # <<".", ".">> \/ new = <<>> \/ new[Len(new)] = <<".", ".">>
                  THEN NormComps(rest, Append(new, comp))
                  ELSE NormComps(rest, SubSeq(new, 1, Len(new) - 1))

Normpath(path) ==
    LET joined == Join(NormComps(Split(path, "/"), <<>>), "/")
    IN  IF joined = <<>> THEN <<".">> ELSE joined

----------------------------------------------------------------------------
(* Names of the program *)

S_linux == <<"l", "i", "n", "u", "x">>
S_buildroot == <<"b", "u", "i", "l", "d", "r", "o", "o", "t">>
S_br == <<"b", "r">>
S_buildroot_busybox == <<"b", "u", "i", "l", "d", "r", "o", "o", "t", "-", "b", "u", "s", "y", "b", "o", "x">>
S_br_busybox == <<"b", "r", "-", "b", "u", "s", "y", "b", "o", "x">>
S_brb == <<"b", "r", "b">>
S_generic == <<"g", "e", "n", "e", "r", "i", "c">>
S_auto == <<"a", "u", "t", "o">>
S_dot_config == <<".", "c", "o", "n", "f", "i", "g">>
S_busybox_config == <<"b", "u", "s", "y", "b", "o", "x", ".", "c", "o", "n", "f", "i", "g">>
S_README == <<"R", "E", "A", "D", "M", "E">>
S_dot_tmp == <<".", "t", "m", "p">>
S_config_ == <<"c", "o", "n", "f", "i", "g", "_">>
BuildrootHeader == <<"#", " ", "M", "a", "k", "e", "f", "i", "l", "e", " ", "f", "o", "r", " ", "b", "u", "i", "l", "d", "r", "o", "o", "t">>

\* get_default_config_name()
DefaultConfigName == <<"l", "a", "t", "e", "s", "t">>

\* the date of datetime.date.today()
Today == [year |-> 2024, month |-> 1, day |-> 1]

\* get_default_backup_name(): strftime("config_%Y-%m-%d")
DefaultBackupName ==
    S_config_ \o ZeroPad(IntToStr(Today.year), 4) \o <<"-">>
              \o ZeroPad(IntToStr(Today.month), 2) \o <<"-">>
              \o ZeroPad(IntToStr(Today.day), 2)

----------------------------------------------------------------------------
(* Build types *)

\* os.path.join(a, b) for a relative b
PathJoin(a, b) == IF a # <<>> /\ a[Len(a)] = "/" THEN a \o b ELSE a \o <<"/">> \o b

\* os.path.basename(p): what follows the last slash
Basename(p) == LET pieces == Split(p, "/") IN pieces[Len(pieces)]

\* The classes. detector names the detect() method the class has (a subclass
\* inherits it), outoftree whether prepare_build() is prepare_build_outoftree().
LinuxBuildType ==
    [NAME |-> S_linux, ALIASES |-> {}, BUILD_CONFIG_FILENAME |-> S_dot_config,
     detector |-> "linux", outoftree |-> TRUE]

BuildrootBuildType ==
    [NAME |-> S_buildroot, ALIASES |-> {S_br}, BUILD_CONFIG_FILENAME |-> S_dot_config,
     detector |-> "buildroot", outoftree |-> TRUE]

BuildrootBusyboxBuildType ==
    [NAME |-> S_buildroot_busybox, ALIASES |-> {S_br_busybox, S_brb},
     BUILD_CONFIG_FILENAME |-> S_busybox_config,
     detector |-> "buildroot", outoftree |-> TRUE]

GenericBuildType ==
    [NAME |-> S_generic, ALIASES |-> {}, BUILD_CONFIG_FILENAME |-> S_dot_config,
     detector |-> "generic", outoftree |-> FALSE]

KNOWN_BUILD_TYPES ==
    <<LinuxBuildType, BuildrootBuildType, BuildrootBusyboxBuildType, GenericBuildType>>

\* BuildType.__init__(info, ckey): an instance; info = [src_makefile, build_dir,
\* config_root] is the BuildInfo together with what detect() reads of the sources
NewBuildType(cls, info, ckey) ==
    [NAME |-> cls.NAME, BUILD_CONFIG_FILENAME |-> cls.BUILD_CONFIG_FILENAME,
     detector |-> cls.detector, outoftree |-> cls.outoftree,
     ckey |-> IF ckey # <<>> THEN ckey ELSE cls.NAME]

get_build_config_file_path(bt, info) == PathJoin(info.build_dir, bt.BUILD_CONFIG_FILENAME)

get_config_dir_path(bt, info) ==
    IF bt.ckey # <<>> THEN PathJoin(info.config_root, bt.ckey) ELSE info.config_root

\* fh.readline(): up to and including the first newline
Readline(text) ==
    IF \E i \in 1..Len(text) : text[i] = "\n" THEN Split(text, "\n")[1] \o <<"\n">> ELSE text

\* detect() returns [ok, bt]: the answer and the instance, whose ckey it may set
LinuxDetect(bt, info, guess_ckey) == [ok |-> FALSE, bt |-> bt]

BuildrootDetect(bt, info, guess_ckey) ==
    IF ~info.src_makefile.exists
    THEN [ok |-> FALSE, bt |-> bt]
    ELSE LET first_line == Strip(Readline(info.src_makefile.text), Whitespace)
         IN  [ok |-> (first_line = BuildrootHeader), bt |-> bt]

GuessCkey(build_dir) == PartitionHead(Strip(Basename(build_dir), {"."}), ".")

GenericDetect(bt, info, guess_ckey) ==
    [ok |-> TRUE,
     bt |-> IF guess_ckey THEN [bt EXCEPT !.ckey = GuessCkey(info.build_dir)] ELSE bt]

Detect(bt, info, guess_ckey) ==
    CASE bt.detector = "linux"     -> LinuxDetect(bt, info, guess_ckey)
      [] bt.detector = "buildroot" -> BuildrootDetect(bt, info, guess_ckey)
      [] bt.detector = "generic"   -> GenericDetect(bt, info, guess_ckey)

\* get_build_type_map(): bmap lists the classes in the order of KNOWN_BUILD_TYPES;
\* bmap_alias maps names and aliases, a later class overwriting an earlier one
AliasIndexes(arg_type) ==
    {i \in 1..Len(KNOWN_BUILD_TYPES) :
        arg_type = KNOWN_BUILD_TYPES[i].NAME \/ arg_type \in KNOWN_BUILD_TYPES[i].ALIASES}

InAliasMap(arg_type) == AliasIndexes(arg_type) # {}

AliasMap(arg_type) ==
    KNOWN_BUILD_TYPES[CHOOSE i \in AliasIndexes(arg_type) : \A j \in AliasIndexes(arg_type) : j <= i]

\* argparse.Namespace.__eq__(other): a Namespace equals only a Namespace
NamespaceEq(arg_config, other) == FALSE

NoBuildType ==
    [NAME |-> <<>>, BUILD_CONFIG_FILENAME |-> <<>>, detector |-> "none",
     outoftree |-> FALSE, ckey |-> <<>>]

\* the for/else loop of main() over build_type_map.values(), from index i on
RECURSIVE ProbeKnown(_, _)
ProbeKnown(i, info) ==
    IF i > Len(KNOWN_BUILD_TYPES)
    THEN [err |-> "no build type found", build_type |-> NoBuildType]
    ELSE LET d == Detect(NewBuildType(KNOWN_BUILD_TYPES[i], info, <<>>), info, TRUE)
         IN  IF d.ok THEN [err |-> "none", build_type |-> d.bt]
             ELSE ProbeKnown(i + 1, info)

\* main(), lines 447-472: the selection of the build type. type is the "-t"
\* option, <<>> when it is not given.
NormalizeType(type) == Normpath(Strip(Lower(type), {"/"}))

SelectBuildType(type, info) ==
    LET arg_type == IF type # <<>> THEN NormalizeType(type) ELSE type
    IN  IF arg_type = <<>> \/ NamespaceEq([type |-> type], S_auto)
        THEN ProbeKnown(1, info)
        ELSE IF InAliasMap(arg_type)
        THEN LET d == Detect(NewBuildType(AliasMap(arg_type), info, <<>>), info, FALSE)
             IN  IF d.ok THEN [err |-> "none", build_type |-> d.bt]
                 ELSE [err |-> "build type mismatch", build_type |-> NoBuildType]
        ELSE LET d == Detect(NewBuildType(GenericBuildType, info, arg_type), info, TRUE)
             IN  IF d.ok THEN [err |-> "none", build_type |-> d.bt]
                 ELSE [err |-> "build type mismatch", build_type |-> NoBuildType]

----------------------------------------------------------------------------
(* The file system: one directory is a function from the names in it to
   entries, a regular file with its content or a symbolic link with its target *)

Contents == 1..NumContents

File(data) == [kind |-> "file", data |-> data, target |-> <<>>]

Symlink(target) == [kind |-> "link", data |-> 0, target |-> target]

NoFile == [exists |-> FALSE, data |-> 0]

\* a file of copy_file() with its bytes, or no file
NoData == [exists |-> FALSE, data |-> <<>>]

Data(bytes) == [exists |-> TRUE, data |-> bytes]

Put(d, name, entry) == [n \in DOMAIN d \cup {name} |-> IF n = name THEN entry ELSE d[n]]

Remove(d, name) == [n \in DOMAIN d \ {name} |-> d[n]]

EmptyDir == [n \in {} |-> File(0)]

\* the regular file a name resolves to, following symbolic links inside the
\* directory; <<>> when it is missing, dangling or a loop (ENOENT, ELOOP)
RECURSIVE Resolve(_, _, _)
Resolve(d, name, fuel) ==
    IF name \notin DOMAIN d THEN <<>>
    ELSE IF d[name].kind = "file" THEN name
    ELSE IF fuel = 0 THEN <<>>
    ELSE Resolve(d, d[name].target, fuel - 1)

\* DirEntry.is_file(follow_symlinks=True)
IsFile(d, name) == Resolve(d, name, Cardinality(DOMAIN d)) # <<>>

\* hashlib sha256 of a content: equal digests for equal contents only
Sha256(data) == <<"sha256", data>>

\* get_file_hash(path) of a path in the directory d; open() follows links
get_file_hash(d, name) == Sha256(d[Resolve(d, name, Cardinality(DOMAIN d))].data)

\* list_config_dir(): the keys of cmap
list_config_dir(d) ==
    {name \in DOMAIN d :
        /\ IsFile(d, name)
        /\ name[1] # "."
        /\ ~StartsWith(name, S_README)
        /\ ~EndsWith(name, S_dot_tmp)}

\* fgen(basename): the i-th name it yields, i = 0, 1, 2, ...
Fgen(basename, i) == IF i = 0 THEN basename ELSE basename \o <<"-", "r">> \o IntToStr(i)

\* ProbeRevisions with a revision counter that steps by two
RECURSIVE ProbeRevisions_SkipsRevision(_, _, _, _, _)
ProbeRevisions_SkipsRevision(cmap, d, basename, bcfile_hash, i) ==
    LET name == Fgen(basename, i)
    IN  IF name \notin cmap
        THEN [want_copy |-> TRUE, name |-> name, revno |-> i]
        ELSE IF bcfile_hash = get_file_hash(d, name)
        THEN [want_copy |-> FALSE, name |-> name, revno |-> i]
        ELSE ProbeRevisions_SkipsRevision(cmap, d, basename, bcfile_hash, i + 2)

\* ProbeRevisions without the comparison of the hashes
RECURSIVE ProbeRevisions_NoHashCheck(_, _, _, _, _)
ProbeRevisions_NoHashCheck(cmap, d, basename, bcfile_hash, i) ==
    LET name == Fgen(basename, i)
    IN  IF name \notin cmap
        THEN [want_copy |-> TRUE, name |-> name, revno |-> i]
        ELSE ProbeRevisions_NoHashCheck(cmap, d, basename, bcfile_hash, i + 1)

\* ProbeRevisions that copies over the first candidate with another hash
ProbeRevisions_Overwrite(cmap, d, basename, bcfile_hash, i) ==
    LET name == Fgen(basename, i)
    IN  IF name \notin cmap
        THEN [want_copy |-> TRUE, name |-> name, revno |-> i]
        ELSE [want_copy |-> bcfile_hash # get_file_hash(d, name), name |-> name, revno |-> i]

\* the loop of run_backup over fgen(basename), from the i-th name on:
\* [want_copy, name, revno]
RECURSIVE ProbeRevisions(_, _, _, _, _)
ProbeRevisions(cmap, d, basename, bcfile_hash, i) ==
    LET name == Fgen(basename, i)
    IN  IF name \notin cmap
        THEN [want_copy |-> TRUE, name |-> name, revno |-> i]
        ELSE IF bcfile_hash = get_file_hash(d, name)
        THEN [want_copy |-> FALSE, name |-> name, revno |-> i]
        ELSE ProbeRevisions(cmap, d, basename, bcfile_hash, i + 1)

\* run_backup(), lines 276-307: what to copy, from the directory as it is
BackupPlan(exists, d, name, bcfile_hash) ==
    IF ~exists
    THEN [want_copy |-> TRUE, name |-> name, revno |-> 0]
    ELSE LET cmap == list_config_dir(d)
         IN  IF name \in cmap
             THEN ProbeRevisions(cmap, d, name, bcfile_hash, 0)
             ELSE [want_copy |-> FALSE, name |-> name, revno |-> 0]

\* copy_file(src, dst) when no system call fails: dst is replaced by a regular
\* file with the content of src
copy_file(d, dst, data) == Put(d, dst, File(data))

\* run_backup(), lines 320-324: unlink the link, ignoring that it is missing,
\* then create it
Relink(d, link, target) == Put(Remove(d, link), link, Symlink(target))

----------------------------------------------------------------------------
(* Spec: the commands on one build directory and one config-store directory *)

S_hidden == <<".", "h">>

\* the names given to "backup"; <<>> is no name
BackupNames == {<<>>, DefaultConfigName, S_hidden}

\* the names given to "config"; <<>> is no name
ConfigNames == {<<>>, Fgen(DefaultBackupName, 1), S_hidden}

\* the names of the files the user puts into the config store by hand
UserNames == {S_README, Fgen(DefaultBackupName, MaxRev)}

\* the source trees and "-t" options of Spec
Makefiles ==
    {[exists |-> FALSE, text |-> <<>>],
     [exists |-> TRUE, text |-> BuildrootHeader \o <<"\n">>]}

SpecTypes == {<<>>, S_brb}

SpecBuildDir == <<"/", "w", "/", "o", "u", "t">>

ConfigRoot == <<"/", "c">>

NoName == <<>>

\* what a command did: res is "ok" (it returned None), "false" (it returned
\* False) or "raise" (an exception left main); dst is the file copy_file()
\* wrote, want_copy and commit whether it copied and whether it ran git commit
NoCommand ==
    [op |-> "none", name |-> NoName, res |-> "ok", want_copy |-> FALSE,
     dst |-> NoName, commit |-> FALSE]

Command(op, name, res) == [NoCommand EXCEPT !.op = op, !.name = name, !.res = res]

NoInfo ==
    [src_makefile |-> [exists |-> FALSE, text |-> <<>>], build_dir |-> <<>>,
     config_root |-> <<>>]

NotSelected == [done |-> FALSE, err |-> "none", build_type |-> NoBuildType]

IdleMain == sel_in = [type |-> <<>>, info |-> NoInfo] /\ sel_out = NotSelected

NoCopy ==
    [pc |-> "idle", src |-> NoData, dst0 |-> NoData, dst |-> NoData, tmp |-> NoData,
     tmp_fd |-> FALSE, fd_open |-> FALSE, tmp_filepath |-> FALSE, pos |-> 0,
     block |-> <<>>, exc |-> FALSE, raised |-> FALSE, faults |-> 0]

IdleCopy == cp = NoCopy

\* the state before the first command, for the "-t" options and source trees
\* given: the config-store directory does not exist yet
InitWith(types, makefiles) ==
    /\ cdir_exists = FALSE
    /\ cdir = EmptyDir
    /\ bdir_exists \in BOOLEAN
    /\ bcfile \in {NoFile} \cup {[exists |-> TRUE, data |-> c] : c \in Contents}
    /\ bcfile.exists => bdir_exists
    /\ \E type \in types, mf \in makefiles :
          LET info == [src_makefile |-> mf, build_dir |-> SpecBuildDir,
                       config_root |-> ConfigRoot]
              sel == SelectBuildType(type, info)
          IN  sel.err = "none" /\ build_type = sel.build_type
    /\ last = NoCommand
    /\ IdleMain
    /\ IdleCopy

Init == InitWith({<<>>}, {[exists |-> FALSE, text |-> <<>>]})

\* the user configures the build: the build system writes the build-config file
EditBuildConfig(c) ==
    /\ bdir_exists
    /\ bcfile' = [exists |-> TRUE, data |-> c]
    /\ last' = Command("env", NoName, "ok")
    /\ UNCHANGED <<cdir_exists, cdir, bdir_exists, build_type, sel_in, sel_out, cp>>

\* the user creates the config-store directory
MakeConfigDir ==
    /\ ~cdir_exists
    /\ cdir_exists' = TRUE
    /\ last' = Command("env", NoName, "ok")
    /\ UNCHANGED <<cdir, bdir_exists, bcfile, build_type, sel_in, sel_out, cp>>

\* the user puts a file into the config-store directory
PlaceFile(name, c) ==
    /\ cdir_exists
    /\ name \notin DOMAIN cdir
    /\ cdir' = Put(cdir, name, File(c))
    /\ last' = Command("env", NoName, "ok")
    /\ UNCHANGED <<cdir_exists, bdir_exists, bcfile, build_type, sel_in, sel_out, cp>>

\* main() with the action "backup": run_backup(name_arg). outcome is what the
\* environment does to a backup that copies:
\*   "nogit"         check_is_git_dir() answers no
\*   "commit"        it answers yes, git add and git commit succeed
\*   "git_failed"    it answers yes, git add or git commit exits non-zero
\*   "int_copied"    a KeyboardInterrupt after copy_file(), line 315
\*   "int_unlinked"  a KeyboardInterrupt after os.unlink(), line 320
BackupOutcomes == {"nogit", "commit", "git_failed", "int_copied", "int_unlinked"}

run_backup(name_arg, outcome) ==
    LET name == IF name_arg = <<>> THEN DefaultBackupName ELSE name_arg
    IN  IF ~bcfile.exists
        THEN \* get_file_hash(bcfile) raises FileNotFoundError
             /\ outcome = "nogit"
             /\ last' = Command("backup", name, "raise")
             /\ UNCHANGED <<cdir_exists, cdir>>
        ELSE LET bcfile_hash == Sha256(bcfile.data)
                 plan == BackupPlan(cdir_exists, cdir, name, bcfile_hash)
                 copied == copy_file(cdir, plan.name, bcfile.data)
                 done == [op |-> "backup", name |-> name, res |-> "ok",
                          want_copy |-> plan.want_copy, dst |-> plan.name,
                          commit |-> FALSE]
             IN  /\ plan.revno <= MaxRev
                 /\ cdir_exists' = TRUE
                 /\ IF ~plan.want_copy
                    THEN outcome = "nogit" /\ cdir' = cdir /\ last' = done
                    ELSE CASE outcome = "int_copied" ->
                                /\ cdir' = copied
                                /\ last' = [done EXCEPT !.res = "interrupt"]
                           [] outcome = "int_unlinked" ->
                                /\ cdir' = Remove(copied, DefaultConfigName)
                                /\ last' = [done EXCEPT !.res = "interrupt"]
                           [] OTHER ->
                                /\ cdir' = Relink(copied, DefaultConfigName, plan.name)
                                /\ last' = [done EXCEPT
                                              !.res = IF outcome = "git_failed" THEN "raise" ELSE "ok",
                                              !.commit = (outcome = "commit")]

Backup(name_arg) ==
    /\ \E outcome \in BackupOutcomes : run_backup(name_arg, outcome)
    /\ UNCHANGED <<bdir_exists, bcfile, build_type, sel_in, sel_out, cp>>

\* prepare_build_outoftree(): [raise, bdir_exists, bcfile] after it. make_ok is
\* the exit status of "make O=<build_dir> defconfig", made the build-config file
\* it leaves behind
prepare_build_outoftree(bdir, bc, make_ok, made) ==
    LET should_init == ~bdir \/ ~bc.exists
    IN  IF ~should_init THEN [raise |-> FALSE, bdir_exists |-> bdir, bcfile |-> bc]
        ELSE IF ~make_ok THEN [raise |-> TRUE, bdir_exists |-> TRUE, bcfile |-> bc]
        ELSE [raise |-> FALSE, bdir_exists |-> TRUE, bcfile |-> made]

\* prepare_build() of the instance: nothing for the generic type
prepare_build(bt, bdir, bc, make_ok, made) ==
    IF bt.outoftree THEN prepare_build_outoftree(bdir, bc, make_ok, made)
    ELSE [raise |-> FALSE, bdir_exists |-> bdir, bcfile |-> bc]

\* run_config that takes "latest" when the name is not listed
run_config_FallsBackToLatest(name_arg, bdir, bc) ==
    LET name == IF name_arg = <<>> THEN DefaultConfigName ELSE name_arg
        cmap == IF cdir_exists THEN list_config_dir(cdir) ELSE {}
        used == IF name \in cmap THEN name ELSE DefaultConfigName
    IN  IF cmap = {} THEN [res |-> "false", bcfile |-> bc]
        ELSE IF used \notin cmap THEN [res |-> "false", bcfile |-> bc]
        ELSE IF ~bdir THEN [res |-> "raise", bcfile |-> bc]
        ELSE [res |-> "ok",
              bcfile |-> [exists |-> TRUE,
                          data |-> cdir[Resolve(cdir, used, Cardinality(DOMAIN cdir))].data]]

\* run_config(name_arg) in the build directory as prepare_build() left it:
\* [res, bcfile]
run_config(name_arg, bdir, bc) ==
    LET name == IF name_arg = <<>> THEN DefaultConfigName ELSE name_arg
        cmap == IF cdir_exists THEN list_config_dir(cdir) ELSE {}
    IN  IF cmap = {} THEN [res |-> "false", bcfile |-> bc]
        ELSE IF name \notin cmap THEN [res |-> "false", bcfile |-> bc]
        ELSE IF ~bdir THEN [res |-> "raise", bcfile |-> bc]
        ELSE [res |-> "ok",
              bcfile |-> [exists |-> TRUE,
                          data |-> cdir[Resolve(cdir, name, Cardinality(DOMAIN cdir))].data]]

\* main() with the action "config" (or none): lines 474-480
Config(name_arg) ==
    \E make_ok \in BOOLEAN, made \in {bcfile} \cup {[exists |-> TRUE, data |-> c] : c \in Contents} :
        LET prep == prepare_build(build_type, bdir_exists, bcfile, make_ok, made)
            run  == run_config(name_arg, prep.bdir_exists, prep.bcfile)
            runs_make == build_type.outoftree /\ (~bdir_exists \/ ~bcfile.exists)
        IN  /\ ~runs_make => (make_ok /\ made = bcfile)
            /\ ~make_ok => made = bcfile
            /\ bdir_exists' = prep.bdir_exists
            /\ bcfile' = IF prep.raise THEN prep.bcfile ELSE run.bcfile
            /\ last' = Command("config",
                               IF name_arg = <<>> THEN DefaultConfigName ELSE name_arg,
                               IF prep.raise THEN "raise" ELSE run.res)
            /\ UNCHANGED <<cdir_exists, cdir, build_type, sel_in, sel_out, cp>>

Next ==
    \/ \E c \in Contents : EditBuildConfig(c)
    \/ MakeConfigDir
    \/ \E name \in UserNames : PlaceFile(name, CHOOSE c \in Contents : \A x \in Contents : c <= x)
    \/ \E name \in BackupNames : Backup(name)
    \/ Config(<<>>)

Spec == Init /\ [][Next]_vars

\* SpecRestore: the command "config" for every build type main() selects
InitRestore == InitWith(SpecTypes, Makefiles)

NextRestore ==
    \/ \E c \in Contents : EditBuildConfig(c)
    \/ Backup(<<>>)
    \/ \E name \in ConfigNames : Config(name)

SpecRestore == InitRestore /\ [][NextRestore]_vars

----------------------------------------------------------------------------
(* SpecMain: the selection of the build type by main() *)

\* the "-t" options; <<>> is no option
MainTypes ==
    {<<>>, S_auto, S_linux, S_buildroot, S_br, S_buildroot_busybox, S_br_busybox, S_brb,
     S_generic, <<"f", "o", "o">>, <<"B", "R">>, <<"b", "r", "b", "/">>, <<".", "/", "f", "o", "o">>, <<"/">>}

\* the Makefile of the source directory
MainMakefiles ==
    Makefiles \cup
    {[exists |-> TRUE, text |-> BuildrootHeader \o <<" ", "\n">> \o <<"a", "l", "l", ":", "\n">>],
     [exists |-> TRUE, text |-> <<"#", " ", "M", "a", "k", "e", "f", "i", "l", "e", "\n">>],
     [exists |-> TRUE, text |-> <<>>]}

\* the build directory
MainBuildDirs == {SpecBuildDir, <<"/", "w", "/", ".", "b", "r", ".", "x", "8", "6">>, <<"/", "w", "/", "l", "i", "n", "u", "x", "-", "5", ".", "1", "0">>}

InitMain ==
    /\ sel_in \in [type : MainTypes,
                   info : [src_makefile : MainMakefiles, build_dir : MainBuildDirs,
                           config_root : {ConfigRoot}]]
    /\ sel_out = NotSelected
    /\ cdir_exists = FALSE
    /\ cdir = EmptyDir
    /\ bdir_exists = FALSE
    /\ bcfile = NoFile
    /\ build_type = NoBuildType
    /\ last = NoCommand
    /\ IdleCopy

\* main(), lines 447-472
Main ==
    /\ ~sel_out.done
    /\ LET sel == SelectBuildType(sel_in.type, sel_in.info)
       IN  sel_out' = [done |-> TRUE, err |-> sel.err, build_type |-> sel.build_type]
    /\ UNCHANGED <<cdir_exists, cdir, bdir_exists, bcfile, build_type, last, sel_in, cp>>

NextMain == Main

SpecMain == InitMain /\ [][NextMain]_vars

----------------------------------------------------------------------------
(* SpecCopy: copy_file(src, dst), one system call per step. The callers have
   read src before (run_backup hashes it, run_config lists it), so it exists.
   The environment lets up to MaxFaults system calls fail or write short.
   cp.tmp_fd and cp.tmp_filepath say whether the variables of the code are set
   (not None), cp.fd_open whether the descriptor is open in the kernel, cp.exc
   whether an exception is on its way through the finally block, cp.raised
   whether copy_file() ended with an exception. *)

Byte == {0, 1}

RECURSIVE BytesOfLen(_)
BytesOfLen(n) ==
    IF n = 0 THEN {<<>>}
    ELSE {Append(b, x) : b \in BytesOfLen(n - 1), x \in Byte}

AllBytes == UNION {BytesOfLen(n) : n \in 0..MaxFileLen}

Min(a, b) == IF a < b THEN a ELSE b

InitCopy ==
    /\ \E src \in {Data(b) : b \in AllBytes},
          dst \in {NoData, Data(<<0>>), Data(<<1, 1>>)} :
          cp = [NoCopy EXCEPT !.pc = "mkstemp", !.src = src, !.dst0 = dst, !.dst = dst]
    /\ cdir_exists = FALSE
    /\ cdir = EmptyDir
    /\ bdir_exists = FALSE
    /\ bcfile = NoFile
    /\ build_type = NoBuildType
    /\ last = NoCommand
    /\ IdleMain

CopyFrame == UNCHANGED <<cdir_exists, cdir, bdir_exists, bcfile, build_type, last, sel_in, sel_out>>

\* the environment may let one more system call fail
MayFail == cp.faults < MaxFaults

\* the exception of a failed system call inside the try statement
Fails(c) == [c EXCEPT !.pc = "finally_close", !.exc = TRUE, !.faults = c.faults + 1]

\* line 196, tempfile.mkstemp(): outside the try statement
cp_mkstemp(ok) ==
    /\ cp.pc = "mkstemp"
    /\ ~ok => MayFail
    /\ cp' = IF ok
             THEN [cp EXCEPT !.pc = "open", !.tmp = Data(<<>>), !.tmp_fd = TRUE,
                             !.fd_open = TRUE, !.tmp_filepath = TRUE]
             ELSE [cp EXCEPT !.pc = "done", !.raised = TRUE, !.faults = cp.faults + 1]
    /\ CopyFrame

\* line 198, open(src, 'rb')
cp_open(ok) ==
    /\ cp.pc = "open"
    /\ ~ok => MayFail
    /\ cp' = IF ok THEN [cp EXCEPT !.pc = "read"] ELSE Fails(cp)
    /\ CopyFrame

\* lines 199 and 202, fh.read(bsize); line 200, the test of the loop
cp_read(ok) ==
    /\ cp.pc = "read"
    /\ ~ok => MayFail
    /\ cp' = IF ok
             THEN LET end == Min(cp.pos + bsize, Len(cp.src.data))
                      block == SubSeq(cp.src.data, cp.pos + 1, end)
                  IN  [cp EXCEPT !.block = block, !.pos = end,
                                 !.pc = IF block # <<>> THEN "write" ELSE "close"]
             ELSE Fails(cp)
    /\ CopyFrame

\* line 201, os.write(tmp_fd, block): it writes the first n bytes of the block
\* and returns n, which the code does not look at; n = 0 is an OSError
cp_write(n) ==
    /\ cp.pc = "write"
    /\ n <= Len(cp.block)
    /\ n < Len(cp.block) => MayFail
    /\ cp' = IF n = 0 THEN Fails(cp)
             ELSE [cp EXCEPT !.pc = "read",
                             !.tmp = Data(cp.tmp.data \o SubSeq(cp.block, 1, n)),
                             !.faults = IF n < Len(cp.block) THEN cp.faults + 1 ELSE cp.faults]
    /\ CopyFrame

\* lines 206-207, os.close(tmp_fd): after a failed close the state of the
\* descriptor is unspecified, still_open is what the kernel made of it
cp_close(ok, still_open) ==
    /\ cp.pc = "close"
    /\ ok => ~still_open
    /\ ~ok => MayFail
    /\ cp' = IF ok
             THEN [cp EXCEPT !.pc = "replace", !.tmp_fd = FALSE, !.fd_open = FALSE]
             ELSE [Fails(cp) EXCEPT !.fd_open = still_open]
    /\ CopyFrame

\* lines 209-210, os.replace(tmp_filepath, dst)
cp_replace(ok) ==
    /\ cp.pc = "replace"
    /\ ~ok => MayFail
    /\ cp' = IF ok
             THEN [cp EXCEPT !.pc = "finally_close", !.dst = cp.tmp, !.tmp = NoData,
                             !.tmp_filepath = FALSE]
             ELSE Fails(cp)
    /\ CopyFrame

\* lines 213-215, finally: os.close(tmp_fd) when tmp_fd is not None; closing a
\* descriptor that is not open is an OSError (EBADF), and an exception here
\* leaves the finally block
cp_finally_close(ok) ==
    /\ cp.pc = "finally_close"
    /\ ~cp.tmp_fd => ok
    /\ (cp.tmp_fd /\ ~cp.fd_open) => ~ok
    /\ (cp.tmp_fd /\ cp.fd_open /\ ~ok) => MayFail
    /\ cp' = IF ~cp.tmp_fd THEN [cp EXCEPT !.pc = "finally_unlink"]
             ELSE IF ok
             THEN [cp EXCEPT !.pc = "finally_unlink", !.tmp_fd = FALSE, !.fd_open = FALSE]
             ELSE [cp EXCEPT !.pc = "done", !.exc = TRUE, !.raised = TRUE,
                             !.faults = IF cp.fd_open THEN cp.faults + 1 ELSE cp.faults,
                             !.fd_open = FALSE]
    /\ CopyFrame

\* lines 217-219, finally: os.unlink(tmp_filepath) when tmp_filepath is set
cp_finally_unlink ==
    /\ cp.pc = "finally_unlink"
    /\ cp' = IF cp.tmp_filepath
             THEN [cp EXCEPT !.pc = "done", !.tmp = NoData, !.tmp_filepath = FALSE,
                             !.raised = cp.exc]
             ELSE [cp EXCEPT !.pc = "done", !.raised = cp.exc]
    /\ CopyFrame

NextCopy ==
    \/ \E ok \in BOOLEAN : cp_mkstemp(ok)
    \/ \E ok \in BOOLEAN : cp_open(ok)
    \/ \E ok \in BOOLEAN : cp_read(ok)
    \/ \E n \in 0..bsize : cp_write(n)
    \/ \E ok \in BOOLEAN, still_open \in BOOLEAN : cp_close(ok, still_open)
    \/ \E ok \in BOOLEAN : cp_replace(ok)
    \/ \E ok \in BOOLEAN : cp_finally_close(ok)
    \/ cp_finally_unlink

SpecCopy == InitCopy /\ [][NextCopy]_vars

----------------------------------------------------------------------------
(* The claims about "backup" and "config". A step of a command is told by
   last', which every action sets; the unprimed variables are the state the
   command started in. *)

Latest == DefaultConfigName

BcHash == Sha256(bcfile.data)

\* the candidate names base, base-r1, base-r2, ... of a backup
Candidate(base, i) == base \o (IF i = 0 THEN <<>> ELSE <<"-", "r">> \o IntToStr(i))

\* the index of the first candidate that is not in the set of names
FirstNotIn(names, base) ==
    CHOOSE i \in 0..(MaxRev + 1) :
        /\ Candidate(base, i) \notin names
        /\ \A j \in 0..(i - 1) : Candidate(base, j) \in names

\* the regular files of a directory that another directory does not have
NewFiles(before, after) ==
    {n \in DOMAIN after : after[n].kind = "file" /\ n \notin DOMAIN before}

\* C1: after a successful backup, "latest" resolves to a file whose hash is the
\* hash of the build-config file at the time of the backup (the build-config
\* file is not touched by the backup, so it still has that hash).
C1_LatestHasBackupHash ==
    (last.op = "backup" /\ last.res = "ok")
        => /\ IsFile(cdir, Latest)
           /\ get_file_hash(cdir, Latest) = BcHash

\* C2: after a successful backup that copies, whatever name was requested,
\* "latest" is a symbolic link to a file that exists in the directory: it is
\* not dangling and does not point at itself.
C2_LatestNeverDangling ==
    (last.op = "backup" /\ last.res = "ok" /\ last.want_copy)
        => /\ Latest \in DOMAIN cdir
           /\ cdir[Latest].kind = "link"
           /\ cdir[Latest].target # Latest
           /\ IsFile(cdir, cdir[Latest].target)

C4_SameHashNoCopy ==
    [][(/\ last'.op = "backup"
        /\ bcfile.exists /\ cdir_exists
        /\ last'.name \in DOMAIN cdir
        /\ IsFile(cdir, last'.name)
        /\ get_file_hash(cdir, last'.name) = BcHash)
       => /\ cdir' = cdir
          /\ last'.res = "ok"
          /\ ~last'.want_copy
          /\ ~last'.commit]_vars

\* C4 witness: a backup found the requested, listed name with the hash of the
\* build-config file and did not copy, while "latest" points somewhere else.
C4_Witness ==
    /\ last.op = "backup" /\ last.res = "ok" /\ ~last.want_copy
    /\ last.name \in list_config_dir(cdir)
    /\ last.dst = last.name
    /\ get_file_hash(cdir, last.name) = BcHash
    /\ Latest \in DOMAIN cdir /\ cdir[Latest].kind = "link"
    /\ cdir[Latest].target # last.name

\* C10 as stated: a backup, however it ends, leaves every regular file of the
\* directory in place with its content, and adds at most one regular file.
C10_NoFileLost ==
    [][last'.op = "backup"
       => /\ \A n \in DOMAIN cdir :
                cdir[n].kind = "file" => (n \in DOMAIN cdir' /\ cdir'[n] = cdir[n])
          /\ Cardinality(NewFiles(cdir, cdir')) <= 1]_vars

\* C10 as amended: a backup, however it ends, leaves every regular file of the
\* directory that is not named "latest" in place with its content, and adds at
\* most one regular file.
C10_NoSnapshotLost ==
    [][last'.op = "backup"
       => /\ \A n \in DOMAIN cdir \ {Latest} :
                cdir[n].kind = "file" => (n \in DOMAIN cdir' /\ cdir'[n] = cdir[n])
          /\ Cardinality(NewFiles(cdir, cdir')) <= 1]_vars

\* C10 witness: a backup has stored the first revision in a directory that
\* holds two more snapshots, the base and its last revision.
C10_Witness ==
    /\ last.op = "backup" /\ last.want_copy
    /\ last.dst = Candidate(last.name, 1)
    /\ {last.name, Candidate(last.name, MaxRev)} \subseteq DOMAIN cdir
    /\ cdir[last.name].kind = "file"
    /\ cdir[Candidate(last.name, MaxRev)].kind = "file"

\* the requested name is not in the store: the directory is missing or the
\* scanner does not list the name
NotInStore(name) == ~cdir_exists \/ name \notin list_config_dir(cdir)

----------------------------------------------------------------------------
(* The claims about the selection of the build type *)

\* C7: with the type option "linux", main() selects the linux build type
\* without a "build type mismatch" error.
C7_LinuxSelectable ==
    (sel_out.done /\ sel_in.type = S_linux)
        => (sel_out.err = "none" /\ sel_out.build_type.NAME = S_linux)

\* C8: with the type option "auto", main() selects what it selects without a
\* type option: the same build type with the same config-store key.
C8_AutoIsNoType ==
    (sel_out.done /\ sel_in.type = S_auto)
        => LET probed == ProbeKnown(1, sel_in.info)
           IN  sel_out.err = probed.err /\ sel_out.build_type = probed.build_type

\* C9: with a type option that is no known name or alias, main() selects the
\* generic build type, and its config-store directory is
\* <config_root>/<the option>.
C9_UnknownTypeIsKey ==
    (/\ sel_out.done
     /\ sel_in.type # <<>>
     /\ NormalizeType(sel_in.type) = sel_in.type
     /\ ~InAliasMap(sel_in.type))
        => /\ sel_out.err = "none"
           /\ sel_out.build_type.NAME = S_generic
           /\ get_config_dir_path(sel_out.build_type, sel_in.info)
                = PathJoin(sel_in.info.config_root, sel_in.type)

----------------------------------------------------------------------------
(* The claim about copy_file() *)

\* C6: the destination never has anything but its previous content or the
\* full content of the source; when copy_file() ends, no temporary file is
\* left, the destination has its previous content if it raised and the content
\* of the source if it did not.
C6_AtomicCopyCleansUp ==
    /\ cp.dst \in {cp.dst0, cp.src}
    /\ cp.pc = "done"
        => /\ ~cp.tmp.exists
           /\ cp.raised => cp.dst = cp.dst0
           /\ ~cp.raised => cp.dst = cp.src

====
